---- MODULE Spec2Model ----
(***************************************************************************)
(* NILM predictor (backend/predictor.py): a loaded classifier artifact,   *)
(* the label -> device-state table, and the three prediction calls        *)
(* predict_single, predict_batch and predict_from_dataframe.              *)
(*                                                                         *)
(* Python values are records [t, v]: t is the Python type ("int",         *)
(* "float", "None", "nan"), v the magnitude.  Probabilities are counted   *)
(* in units of 1/Scale so that they stay exact.                           *)
(***************************************************************************)
EXTENDS Integers, Sequences, FiniteSets, TLC

(* ---------------- bounds of the exploration ---------------- *)
MaxVal == 1        \* record values are the numbers 0..MaxVal
MaxBatch == 2      \* predict_batch is called with at most MaxBatch records
MaxRows == 2       \* a table has at most MaxRows rows
MaxCell == 1       \* table cells are NaN or the floats 0..MaxCell

(* ---------------- Python values ---------------- *)
None == [t |-> "None", v |-> 0]
NaN == [t |-> "nan", v |-> 0]
TypeError == [t |-> "TypeError", v |-> 0]
Int_(n) == [t |-> "int", v |-> n]
Float_(n) == [t |-> "float", v |-> n]

\* float(value): an int becomes the float of the same magnitude, a float is
\* kept, None is a TypeError
float(value) ==
  CASE value.t = "int" -> Float_(value.v)
    [] value.t = "float" -> value
    [] value.t = "nan" -> NaN
    [] OTHER -> TypeError

\* dict.get(key, default)
get(d, key, default) == IF key \in DOMAIN d THEN d[key] ELSE default

(* ---------------- the label table ---------------- *)
AllOff == [bulb |-> FALSE, fan |-> FALSE, iron |-> FALSE]

LABEL_TO_DEVICE_STATES_swapped ==
  (0 :> [bulb |-> FALSE, fan |-> FALSE, iron |-> FALSE]) @@
  (1 :> [bulb |-> TRUE, fan |-> FALSE, iron |-> FALSE]) @@
  (2 :> [bulb |-> FALSE, fan |-> FALSE, iron |-> TRUE]) @@
  (3 :> [bulb |-> TRUE, fan |-> TRUE, iron |-> FALSE]) @@
  (4 :> [bulb |-> FALSE, fan |-> TRUE, iron |-> FALSE]) @@
  (5 :> [bulb |-> TRUE, fan |-> FALSE, iron |-> TRUE]) @@
  (6 :> [bulb |-> FALSE, fan |-> TRUE, iron |-> TRUE]) @@
  (7 :> [bulb |-> TRUE, fan |-> TRUE, iron |-> TRUE])

LABEL_TO_DEVICE_STATES ==
  (0 :> [bulb |-> FALSE, fan |-> FALSE, iron |-> FALSE]) @@
  (1 :> [bulb |-> TRUE, fan |-> FALSE, iron |-> FALSE]) @@
  (2 :> [bulb |-> FALSE, fan |-> TRUE, iron |-> FALSE]) @@
  (3 :> [bulb |-> TRUE, fan |-> TRUE, iron |-> FALSE]) @@
  (4 :> [bulb |-> FALSE, fan |-> FALSE, iron |-> TRUE]) @@
  (5 :> [bulb |-> TRUE, fan |-> FALSE, iron |-> TRUE]) @@
  (6 :> [bulb |-> FALSE, fan |-> TRUE, iron |-> TRUE]) @@
  (7 :> [bulb |-> TRUE, fan |-> TRUE, iron |-> TRUE])

(* ---------------- sequences ---------------- *)
Reverse(s) == [i \in 1..Len(s) |-> s[Len(s) + 1 - i]]

RECURSIVE max(_)
\* max(probabilities) of a non-empty sequence
max(s) ==
  IF Len(s) = 1 THEN s[1]
  ELSE LET m == max(Tail(s)) IN IF s[1] >= m THEN s[1] ELSE m

RECURSIVE insert_after_equal(_, _)
\* x goes behind every element whose key is <= its own: the ascending sort
\* is stable
insert_after_equal(x, s) ==
  IF s = <<>> THEN <<x>>
  ELSE IF s[1].probability <= x.probability
       THEN <<s[1]>> \o insert_after_equal(x, Tail(s))
       ELSE <<x>> \o s

RECURSIVE stable_sort(_)
\* ascending stable sort on the key x['probability']
stable_sort(s) ==
  IF s = <<>> THEN <<>>
  ELSE insert_after_equal(s[Len(s)], stable_sort(SubSeq(s, 1, Len(s) - 1)))

\* sorted(...)[::-1] instead of reverse=True: equal keys come out reversed
sorted_then_reversed(s, reverse) ==
  IF reverse THEN Reverse(stable_sort(s)) ELSE stable_sort(s)

\* reverse=True forgotten
sorted_ascending(s, reverse) == stable_sort(s)

\* sorted(s, key=lambda x: x['probability'], reverse=reverse): the list is
\* reversed, sorted stably ascending and reversed again, which keeps the
\* original order of equal keys
sorted(s, reverse) ==
  IF reverse THEN Reverse(stable_sort(Reverse(s))) ELSE stable_sort(s)

(* ---------------- the trained model (opaque to the predictor) ------------ *)
\* A model answers from the feature vector alone.  score() stands for the
\* trained decision function: position i of the vector has weight i, so the
\* order of the features matters.
RECURSIVE score(_, _)
score(X, i) == IF i > Len(X) THEN 0 ELSE i * X[i].v + score(X, i + 1)

RECURSIVE argmax(_, _)
\* index of the first maximum of s among the positions i..Len(s)
argmax(s, i) ==
  IF i = Len(s) THEN i
  ELSE LET j == argmax(s, i + 1) IN IF s[i] >= s[j] THEN i ELSE j

\* model.predict_proba(X)[0]: one probability per class of the model
predict_proba(m, X) == m.rows[(score(X, 1) % Len(m.rows)) + 1]

\* model.predict(X)[0]: a forest answers classes_[argmax(predict_proba)]; a
\* model with its own decision function ("svc") need not agree with its
\* probability estimate
predict(m, X) ==
  IF m.kind = "forest"
  THEN m.classes_[argmax(predict_proba(m, X), 1)]
  ELSE m.classes_[(score(X, 1) % Len(m.classes_)) + 1]

\* probabilities are counted in quarters: every row of a model sums to Scale
Scale == 4

Rows3 == << <<4, 0, 0>>, <<1, 2, 1>>, <<0, 1, 3>>, <<2, 2, 0>>, <<1, 1, 2>> >>

Forest047 == [kind |-> "forest", classes_ |-> <<0, 4, 7>>, rows |-> Rows3]
Forest129 == [kind |-> "forest", classes_ |-> <<1, 2, 9>>, rows |-> Rows3]
\* the probability estimate of the svc model is calibrated apart from its
\* decision function: its most probable class need not be the predicted one
RowsSvc == << <<1, 2, 1>>, <<4, 0, 0>>, <<0, 1, 3>>, <<2, 2, 0>>, <<1, 1, 2>> >>

Svc536 == [kind |-> "svc", classes_ |-> <<5, 3, 6>>, rows |-> RowsSvc]

\* the artifacts a training run may have pickled: model, feature_columns,
\* class_labels
Artifacts ==
  { [model |-> Forest047, feature_columns |-> <<"voltage", "current">>,
     class_labels |-> <<0, 4, 7>>],
    [model |-> Forest047, feature_columns |-> <<"current", "voltage">>,
     class_labels |-> <<0, 4, 7>>],
    [model |-> Forest129, feature_columns |-> <<"voltage", "current">>,
     class_labels |-> <<1, 2, 9>>],
    [model |-> Svc536, feature_columns |-> <<"voltage", "current">>,
     class_labels |-> <<5, 3, 6>>] }

(* ---------------- predict_single ---------------- *)
\* the label is masked to three bits before the lookup: 9 decodes as 1
device_states_masked(table, label) == table[label % 8]

\* LABEL_TO_DEVICE_STATES.get(label, {"bulb": False, "fan": False,
\* "iron": False}), lines 88-92 and 101-105
device_states_of(table, label) == get(table, label, AllOff)

\* the `value is None` test left out: float(None) is a TypeError
feature_value_no_null_check(data, col) == float(get(data, col, Float_(0)))

\* lines 77-80: value = data.get(col, 0.0); None becomes 0.0; float(value)
feature_value(data, col) ==
  LET value == get(data, col, Float_(0))
  IN float(IF value = None THEN Float_(0) ELSE value)

\* lines 75-80: one element per configured feature, in configured order
features(self, data) ==
  [i \in 1..Len(self.feature_columns) |->
     feature_value(data, self.feature_columns[i])]

\* enumerate(probabilities[:-1]): the last class never gets an entry
prob_list_without_last(self, table, probabilities) ==
  [i \in 1..(Len(probabilities) - 1) |->
     [label |-> self.class_labels[i],
      probability |-> probabilities[i],
      device_states |-> device_states_of(table, self.class_labels[i])]]

\* lines 95-106: entry i pairs class_labels[i] with the i-th probability
prob_list(self, table, probabilities) ==
  [i \in 1..Len(probabilities) |->
     [label |-> self.class_labels[i],
      probability |-> probabilities[i],
      device_states |-> device_states_of(table, self.class_labels[i])]]

NoResult == [label |-> -1, device_states |-> AllOff,
             probabilities |-> <<>>, confidence |-> -1]

\* data.setdefault(col, 0.0) instead of data.get(col, 0.0): the caller's
\* record gains the missing keys
predict_single_setdefault(self, table, data) ==
  LET X == features(self, data)
      label == predict(self.model, X)
      probabilities == predict_proba(self.model, X)
      filled == [k \in DOMAIN data \cup
                       {self.feature_columns[i] :
                          i \in 1..Len(self.feature_columns)} |->
                   get(data, k, Float_(0))]
  IN IF \E i \in 1..Len(X) : X[i] = TypeError
     THEN [raised |-> "TypeError", ret |-> NoResult, X |-> <<>>,
           data |-> filled, self |-> self, table |-> table]
     ELSE [raised |-> "", X |-> X, data |-> filled, self |-> self,
           table |-> table,
           ret |-> [label |-> label,
                    device_states |-> device_states_of(table, label),
                    probabilities |->
                      sorted(prob_list(self, table, probabilities), TRUE),
                    confidence |-> max(probabilities)]]

\* confidence read from the first class instead of the maximum
predict_single_first_confidence(self, table, data) ==
  LET X == features(self, data)
      label == predict(self.model, X)
      probabilities == predict_proba(self.model, X)
  IN IF \E i \in 1..Len(X) : X[i] = TypeError
     THEN [raised |-> "TypeError", ret |-> NoResult, X |-> <<>>,
           data |-> data, self |-> self, table |-> table]
     ELSE [raised |-> "", X |-> X, data |-> data, self |-> self,
           table |-> table,
           ret |-> [label |-> label,
                    device_states |-> device_states_of(table, label),
                    probabilities |->
                      sorted(prob_list(self, table, probabilities), TRUE),
                    confidence |-> probabilities[1]]]

\* lines 74-116.  The value is everything the call does: what it returns or
\* raises, the vector X handed to the model, and the caller's record, the
\* predictor and the label table as the call leaves them.
predict_single(self, table, data) ==
  LET X == features(self, data)
      label == predict(self.model, X)
      probabilities == predict_proba(self.model, X)
  IN IF \E i \in 1..Len(X) : X[i] = TypeError
     THEN [raised |-> "TypeError", ret |-> NoResult, X |-> <<>>,
           data |-> data, self |-> self, table |-> table]
     ELSE [raised |-> "", X |-> X, data |-> data, self |-> self,
           table |-> table,
           ret |-> [label |-> label,
                    device_states |-> device_states_of(table, label),
                    probabilities |->
                      sorted(prob_list(self, table, probabilities), TRUE),
                    confidence |-> max(probabilities)]]

(* ---------------- predict_batch ---------------- *)
RECURSIVE comprehension(_, _, _, _, _)
\* [self.predict_single(data) for data in data_list], record by record; the
\* first record that raises ends the call
comprehension(self, table, data_list, i, acc) ==
  IF i > Len(data_list)
  THEN [raised |-> "", ret |-> acc, data_list |-> data_list,
        self |-> self, table |-> table]
  ELSE LET r == predict_single(self, table, data_list[i])
           after == [data_list EXCEPT ![i] = r.data]
       IN IF r.raised # ""
          THEN [raised |-> r.raised, ret |-> <<>>, data_list |-> after,
                self |-> r.self, table |-> r.table]
          ELSE comprehension(r.self, r.table, after, i + 1,
                             Append(acc, r.ret))

RECURSIVE comprehension_prepend(_, _, _, _, _)
comprehension_prepend(self, table, data_list, i, acc) ==
  IF i > Len(data_list)
  THEN [raised |-> "", ret |-> acc, data_list |-> data_list,
        self |-> self, table |-> table]
  ELSE LET r == predict_single(self, table, data_list[i])
           after == [data_list EXCEPT ![i] = r.data]
       IN IF r.raised # ""
          THEN [raised |-> r.raised, ret |-> <<>>, data_list |-> after,
                self |-> r.self, table |-> r.table]
          ELSE comprehension_prepend(r.self, r.table, after, i + 1,
                                     <<r.ret>> \o acc)

\* results.insert(0, ...) instead of append: the results come out reversed
predict_batch_reversed(self, table, data_list) ==
  comprehension_prepend(self, table, data_list, 1, <<>>)

\* line 128
predict_batch(self, table, data_list) ==
  comprehension(self, table, data_list, 1, <<>>)

(* ---------------- predict_from_dataframe ---------------- *)
\* A DataFrame is [columns, rows]: the column names in order and one
\* function column -> cell per row.  Frames live in a heap of objects so
\* that a copy and its original are told apart.
Bool_(b) == [t |-> "bool", v |-> IF b THEN 1 ELSE 0]

ColumnSet(df) == {df.columns[i] : i \in 1..Len(df.columns)}

\* df[self.feature_columns] raises KeyError when a name is not a column
missing_columns(df, names) ==
  {names[i] : i \in 1..Len(names)} \ ColumnSet(df)

\* .fillna(0): every missing cell (NaN or None) of the selection becomes 0
fillna(cell, value) == IF cell = NaN \/ cell = None THEN value ELSE cell

\* df[self.feature_columns].fillna(0).values: one float vector per row, in
\* the order of feature_columns
values(df, names) ==
  [r \in 1..Len(df.rows) |->
     [i \in 1..Len(names) |-> float(fillna(df.rows[r][names[i]], Int_(0)))]]

\* result_df = df: the new columns land in the caller's table
copy_alias(heap, ref) == [heap |-> heap, ref |-> ref]

\* df.copy(): a new object with the same columns and cells
copy(heap, ref) ==
  LET new == Cardinality(DOMAIN heap) + 1
  IN [heap |-> heap @@ (new :> heap[ref]), ref |-> new]

\* frame[col] = cells: an existing column is overwritten in place, a new
\* one is appended on the right
setitem(heap, ref, col, cells) ==
  LET df == heap[ref]
  IN [heap EXCEPT ![ref] =
        [columns |-> IF col \in ColumnSet(df) THEN df.columns
                     ELSE Append(df.columns, col),
         rows |-> [r \in 1..Len(df.rows) |-> (col :> cells[r]) @@ df.rows[r]]]]

\* result_df['predicted_label'].map(lambda x:
\*     LABEL_TO_DEVICE_STATES.get(x, {}).get(device, False))
device_column(table, df, device) ==
  [r \in 1..Len(df.rows) |->
     LET x == df.rows[r]["predicted_label"].v
     IN Bool_(IF x \in DOMAIN table THEN table[x][device] ELSE FALSE)]

NoFrame == [columns |-> <<>>, rows |-> <<>>]

\* lines 140-153, with the caller's table at heap address 1
predict_from_dataframe(self, table, df) ==
  LET heap0 == (1 :> df)
  IN IF missing_columns(df, self.feature_columns) # {}
     THEN [raised |-> "KeyError", ret |-> NoFrame, distinct |-> FALSE,
           X |-> <<>>, df |-> heap0[1], self |-> self, table |-> table]
     ELSE
       LET X == values(heap0[1], self.feature_columns)
           predictions == [r \in 1..Len(X) |-> Int_(predict(self.model, X[r]))]
           c == copy(heap0, 1)
           h1 == setitem(c.heap, c.ref, "predicted_label", predictions)
           h2 == setitem(h1, c.ref, "bulb",
                         device_column(table, h1[c.ref], "bulb"))
           h3 == setitem(h2, c.ref, "fan",
                         device_column(table, h2[c.ref], "fan"))
           h4 == setitem(h3, c.ref, "iron",
                         device_column(table, h3[c.ref], "iron"))
       IN [raised |-> "", ret |-> h4[c.ref], distinct |-> c.ref # 1,
           X |-> X, df |-> h4[1], self |-> self, table |-> table]

(* ---------------- construction ---------------- *)
DefaultPath == "backend/artifacts/nilm_rf_model.pkl"

NoModel == [kind |-> "None", classes_ |-> <<>>, rows |-> <<>>]

\* open() called on whatever path was given: the missing file is found out
\* only by opening it
load_model_no_exists_check(self, fs) ==
  IF self.model_path \notin DOMAIN fs
  THEN [raised |-> "FileNotFoundError", open_called |-> TRUE, self |-> self]
  ELSE [raised |-> "", open_called |-> TRUE,
        self |-> [self EXCEPT
                    !.model = fs[self.model_path].model,
                    !.feature_columns = fs[self.model_path].feature_columns,
                    !.class_labels = fs[self.model_path].class_labels]]

\* lines 45-55; fs maps the paths that exist to the artifact pickled there
load_model(self, fs) ==
  IF self.model_path \notin DOMAIN fs
  THEN [raised |-> "FileNotFoundError", open_called |-> FALSE, self |-> self]
  ELSE [raised |-> "", open_called |-> TRUE,
        self |-> [self EXCEPT
                    !.model = fs[self.model_path].model,
                    !.feature_columns = fs[self.model_path].feature_columns,
                    !.class_labels = fs[self.model_path].class_labels]]

\* lines 27-43; path "" stands for model_path=None
init__(path, fs) ==
  load_model([model_path |-> IF path = "" THEN DefaultPath ELSE path,
              model |-> NoModel,
              feature_columns |-> <<>>,
              class_labels |-> <<>>], fs)

(* ---------------- the state ---------------- *)
VARIABLES
  fs,               \* the files that exist: path -> pickled artifact
  pc,               \* "none": no predictor yet; "failed": the constructor
                    \* raised, no instance exists; "ready": a predictor
                    \* waits for a call; "returned": a prediction call has
                    \* just returned to its caller
  model_path,       \* self.model_path
  model,            \* self.model (NoModel stands for None)
  feature_columns,  \* self.feature_columns (<<>> stands for None)
  class_labels,     \* self.class_labels (<<>> stands for None)
  label_table,      \* the module-level dict LABEL_TO_DEVICE_STATES
  open_called,      \* the last construction called open() on the path
  op,               \* the last call made
  input,            \* its argument as the caller passed it
  arg,              \* the caller's argument object after the call
  ret,              \* what the call returned
  raised,           \* the exception it raised, "" if none
  X,                \* the array handed to the model
  distinct          \* the returned table is another object than the input

vars == <<fs, pc, model_path, model, feature_columns, class_labels,
          label_table, open_called, op, input, arg, ret, raised, X, distinct>>

self == [model_path |-> model_path, model |-> model,
         feature_columns |-> feature_columns, class_labels |-> class_labels]

PredictOps == {"predict_single", "predict_batch", "predict_from_dataframe"}

(* ---------------- the inputs explored ---------------- *)
Paths == {"", "missing.pkl"}

FileSystems == {<<>>} \cup {(DefaultPath :> a) : a \in Artifacts}

Keys == {"voltage", "current", "bulb"}

Vals == {None} \cup {Int_(n) : n \in 1..MaxVal} \cup {Float_(n) : n \in 0..MaxVal}

Records == UNION {[K -> Vals] : K \in SUBSET Keys}

BatchRecords == UNION {[K -> {None, Int_(1)}] : K \in SUBSET {"voltage", "current"}}

Batches == UNION {[1..n -> BatchRecords] : n \in 0..MaxBatch}

Cells == {NaN} \cup {Float_(n) : n \in 0..MaxCell}

ColumnLists ==
  {SelectSeq(<<"voltage", "current", "bulb">>, LAMBDA c : c \in K) :
     K \in SUBSET Keys}

\* the rows over a set of columns: the measurement columns take every cell
\* value, a "bulb" column (ground truth kept with the measurements) holds 1.0
RowsOver(cols) ==
  {f @@ g : f \in [cols \ {"bulb"} -> Cells],
            g \in [cols \cap {"bulb"} -> {Float_(1)}]}

\* tables of up to MaxRows rows; a table that carries a "bulb" column is
\* explored with at most one row
Tables ==
  UNION {{[columns |-> cols, rows |-> rows] :
            rows \in UNION {[1..n -> RowsOver({cols[i] : i \in 1..Len(cols)})] :
                              n \in 0..(IF \E i \in 1..Len(cols) : cols[i] = "bulb"
                                        THEN 1 ELSE MaxRows)}} :
         cols \in ColumnLists}

(* ---------------- the operations ---------------- *)
Init ==
  /\ fs \in FileSystems
  /\ pc = "none"
  /\ model_path = ""
  /\ model = NoModel
  /\ feature_columns = <<>>
  /\ class_labels = <<>>
  /\ label_table = LABEL_TO_DEVICE_STATES
  /\ open_called = FALSE
  /\ op = "none"
  /\ input = <<>>
  /\ arg = <<>>
  /\ ret = <<>>
  /\ raised = ""
  /\ X = <<>>
  /\ distinct = FALSE

\* NILMPredictor(model_path)
Construct(path) ==
  /\ pc # "returned"
  /\ \E r \in {init__(path, fs)} :
     /\ pc' = IF r.raised = "" THEN "ready" ELSE "failed"
     /\ model_path' = r.self.model_path
     /\ model' = r.self.model
     /\ feature_columns' = r.self.feature_columns
     /\ class_labels' = r.self.class_labels
     /\ open_called' = r.open_called
     /\ op' = "__init__"
     /\ input' = path
     /\ arg' = path
     /\ ret' = <<>>
     /\ raised' = r.raised
     /\ X' = <<>>
     /\ distinct' = FALSE
     /\ UNCHANGED <<fs, label_table>>

\* predictor.predict_single(data)
PredictSingle(data) ==
  /\ pc = "ready"
  /\ \E r \in {predict_single(self, label_table, data)} :
        /\ model_path' = r.self.model_path
        /\ model' = r.self.model
        /\ feature_columns' = r.self.feature_columns
        /\ class_labels' = r.self.class_labels
        /\ label_table' = r.table
        /\ pc' = "returned"
        /\ op' = "predict_single"
        /\ input' = data
        /\ arg' = r.data
        /\ ret' = r.ret
        /\ raised' = r.raised
        /\ X' = r.X
        /\ distinct' = FALSE
  /\ UNCHANGED <<fs, open_called>>

\* predictor.predict_batch(data_list)
PredictBatch(data_list) ==
  /\ pc = "ready"
  /\ \E r \in {predict_batch(self, label_table, data_list)} :
        /\ model_path' = r.self.model_path
        /\ model' = r.self.model
        /\ feature_columns' = r.self.feature_columns
        /\ class_labels' = r.self.class_labels
        /\ label_table' = r.table
        /\ pc' = "returned"
        /\ op' = "predict_batch"
        /\ input' = data_list
        /\ arg' = r.data_list
        /\ ret' = r.ret
        /\ raised' = r.raised
        /\ X' = <<>>
        /\ distinct' = FALSE
  /\ UNCHANGED <<fs, open_called>>

\* predictor.predict_from_dataframe(df)
PredictFromDataframe(df) ==
  /\ pc = "ready"
  /\ \E r \in {predict_from_dataframe(self, label_table, df)} :
        /\ model_path' = r.self.model_path
        /\ model' = r.self.model
        /\ feature_columns' = r.self.feature_columns
        /\ class_labels' = r.self.class_labels
        /\ label_table' = r.table
        /\ pc' = "returned"
        /\ op' = "predict_from_dataframe"
        /\ input' = df
        /\ arg' = r.df
        /\ ret' = r.ret
        /\ raised' = r.raised
        /\ X' = r.X
        /\ distinct' = r.distinct
  /\ UNCHANGED <<fs, open_called>>

\* the caller is done with the result and is free to make the next call
Continue ==
  /\ pc = "returned"
  /\ pc' = "ready"
  /\ op' = "none"
  /\ input' = <<>>
  /\ arg' = <<>>
  /\ ret' = <<>>
  /\ raised' = ""
  /\ X' = <<>>
  /\ distinct' = FALSE
  /\ UNCHANGED <<fs, model_path, model, feature_columns, class_labels,
                 label_table, open_called>>

Next ==
  \/ \E path \in Paths : Construct(path)
  \/ \E data \in Records : PredictSingle(data)
  \/ \E data_list \in Batches : PredictBatch(data_list)
  \/ \E df \in Tables : PredictFromDataframe(df)
  \/ Continue

Spec == Init /\ [][Next]_vars

(* ---------------- what the calls are checked against ---------------- *)
\* the results of predict_single that the last call handed to its caller
Results ==
  IF raised # "" THEN {}
  ELSE IF op = "predict_single" THEN {ret}
  ELSE IF op = "predict_batch" THEN {ret[i] : i \in 1..Len(ret)}
  ELSE {}

\* the device states encoded in the bits of a label
Bits(L) == [bulb |-> L % 2 = 1, fan |-> (L \div 2) % 2 = 1,
            iron |-> (L \div 4) % 2 = 1]

\* position of a label in class_labels
IndexOf(L) == CHOOSE i \in 1..Len(class_labels) : class_labels[i] = L

(* C1: for every label L in 0..7 the table has exactly one entry, and it
   decodes the binary encoding of L: bulb = bit 0, fan = bit 1, iron = bit
   2; every returned result with a label in 0..7 carries that decoding. *)
C1_TableDecodesBits ==
  /\ DOMAIN label_table = 0..7
  /\ \A L \in 0..7 : label_table[L] = Bits(L)
  /\ label_table[4] = [bulb |-> FALSE, fan |-> FALSE, iron |-> TRUE]
  /\ label_table[7] = [bulb |-> TRUE, fan |-> TRUE, iron |-> TRUE]
  /\ \A res \in Results :
       res.label \in 0..7 => res.device_states = Bits(res.label)

\* a prediction of label 4 was returned as iron only, next to an entry for
\* label 7 with all three devices on
C1_Witness ==
  /\ op = "predict_single" /\ raised = ""
  /\ ret.label = 4
  /\ ret.device_states = [bulb |-> FALSE, fan |-> FALSE, iron |-> TRUE]
  /\ \E i \in 1..Len(ret.probabilities) :
       /\ ret.probabilities[i].label = 7
       /\ ret.probabilities[i].device_states =
            [bulb |-> TRUE, fan |-> TRUE, iron |-> TRUE]

(* C2: in every result of predict_single, confidence equals the maximum
   probability among the entries of probabilities, and the list is in
   non-increasing order of probability. *)
C2_ConfidenceIsMaxAndSorted ==
  \A res \in Results :
    LET P == res.probabilities
    IN /\ \A i \in 1..Len(P) : P[i].probability <= res.confidence
       /\ \E i \in 1..Len(P) : P[i].probability = res.confidence
       /\ \A i, j \in 1..Len(P) :
            i < j => P[i].probability >= P[j].probability
       /\ \A i \in 1..Len(P) : P[1].probability >= P[i].probability

\* the model's last class had the highest probability: sorting moved it to the
\* front, and confidence is its probability, not the first class's
C2_Witness ==
  /\ op = "predict_single" /\ raised = ""
  /\ predict_proba(model, X) = <<0, 1, 3>>
  /\ ret.probabilities[1].label = class_labels[3]
  /\ ret.confidence = 3

(* C3: predict_single never raises because of an absent key or a null value;
   the vector passed to the model has one element per configured feature, in
   the order of feature_columns: the record's value for that feature when
   the key is present and not null, 0.0 otherwise.  Other keys of the record
   do not show in it. *)
C3_FeatureVector ==
  op = "predict_single" =>
    /\ raised = ""
    /\ Len(X) = Len(feature_columns)
    /\ \A i \in 1..Len(feature_columns) :
         LET col == feature_columns[i]
         IN IF col \in DOMAIN input /\ input[col] # None
            THEN X[i].t = "float" /\ X[i].v = input[col].v
            ELSE X[i] = Float_(0)

\* a record without the first feature, with null for the second and with a
\* key that is no feature
C3_Witness ==
  /\ op = "predict_single" /\ raised = ""
  /\ feature_columns[1] \notin DOMAIN input
  /\ feature_columns[2] \in DOMAIN input
  /\ input[feature_columns[2]] = None
  /\ "bulb" \in DOMAIN input
  /\ X = <<Float_(0), Float_(0)>>

(* C4: predict_batch over N records returns exactly N results, and result i
   is what predict_single returns for record i alone. *)
C4_BatchIsPointwise ==
  op = "predict_batch" =>
    /\ raised = ""
    /\ Len(ret) = Len(input)
    /\ \A i \in 1..Len(input) :
         LET alone == predict_single(self, label_table, input[i])
         IN alone.raised = "" /\ ret[i] = alone.ret

\* a batch of two records whose results differ
C4_Witness ==
  /\ op = "predict_batch" /\ raised = ""
  /\ Len(input) = 2
  /\ Len(ret) = 2
  /\ ret[1].label # ret[2].label

(* C5: constructing a predictor with an artifact path that does not exist
   raises FileNotFoundError during construction, before open() is called and
   before model, feature_columns or class_labels receive a value, and no
   prediction call ever follows on the failed construction. *)
C5_MissingArtifactFailsConstruction ==
  /\ [](op = "__init__" /\ model_path \notin DOMAIN fs =>
          /\ pc = "failed"
          /\ raised = "FileNotFoundError"
          /\ ~open_called
          /\ model = NoModel
          /\ feature_columns = <<>>
          /\ class_labels = <<>>)
  /\ [][pc = "failed" => op' \notin PredictOps]_vars

\* an artifact exists at the default location, but the path given does not
C5_Witness ==
  /\ op = "__init__"
  /\ input = "missing.pkl"
  /\ DefaultPath \in DOMAIN fs
  /\ pc = "failed"
  /\ raised = "FileNotFoundError"

(* C6: a label outside 0..7 never causes an error and maps to all devices
   off: as the predicted label of predict_single, as the class label of a
   probabilities entry, and as the predicted label of a table row. *)
C6_UnknownLabelAllOff ==
  /\ op \in {"predict_single", "predict_batch"} => raised = ""
  /\ \A res \in Results :
       /\ res.label \notin 0..7 => res.device_states = AllOff
       /\ \A i \in 1..Len(res.probabilities) :
            res.probabilities[i].label \notin 0..7 =>
              res.probabilities[i].device_states = AllOff
  /\ op = "predict_from_dataframe" =>
       /\ missing_columns(input, feature_columns) = {} => raised = ""
       /\ raised = "" =>
            \A r \in 1..Len(ret.rows) :
              ret.rows[r]["predicted_label"].v \notin 0..7 =>
                /\ ret.rows[r]["bulb"] = Bool_(FALSE)
                /\ ret.rows[r]["fan"] = Bool_(FALSE)
                /\ ret.rows[r]["iron"] = Bool_(FALSE)

\* the model predicted label 9
C6_Witness ==
  /\ op = "predict_single" /\ raised = ""
  /\ ret.label = 9
  /\ ret.device_states = AllOff
  /\ \E i \in 1..Len(ret.probabilities) :
       /\ ret.probabilities[i].label = 9
       /\ ret.probabilities[i].device_states = AllOff

(* C7: in the probabilities list of a result, two classes of equal
   probability appear in their original order: the one at the lower index of
   class_labels comes first. *)
C7_TiesKeepOriginalOrder ==
  \A res \in Results :
    LET P == res.probabilities
    IN \A i, j \in 1..Len(P) :
         i < j /\ P[i].probability = P[j].probability =>
           IndexOf(P[i].label) < IndexOf(P[j].label)

\* the two most probable classes are tied
C7_Witness ==
  /\ op = "predict_single" /\ raised = ""
  /\ Len(ret.probabilities) >= 2
  /\ ret.probabilities[1].probability = ret.probabilities[2].probability
  /\ ret.probabilities[1].label = class_labels[1]
  /\ ret.probabilities[2].label = class_labels[2]

\* the record made from a table row: a missing cell is a null value
record_of_row(row) ==
  [c \in DOMAIN row |-> IF row[c] = NaN THEN None ELSE row[c]]

(* C8: for every table and every row of it, predict_from_dataframe gives the
   row the label predict_single returns for the record made from that row,
   and bulb, fan and iron equal to that result's device_states; a feature
   missing from the table counts as 0.0, as it does in predict_single. *)
C8_TableAgreesWithSingle ==
  op = "predict_from_dataframe" =>
    /\ raised = ""
    /\ \A r \in 1..Len(input.rows) :
         LET single == predict_single(self, label_table,
                                      record_of_row(input.rows[r]))
         IN /\ single.raised = ""
            /\ ret.rows[r]["predicted_label"] = Int_(single.ret.label)
            /\ ret.rows[r]["bulb"] = Bool_(single.ret.device_states.bulb)
            /\ ret.rows[r]["fan"] = Bool_(single.ret.device_states.fan)
            /\ ret.rows[r]["iron"] = Bool_(single.ret.device_states.iron)

(* C9: predict_from_dataframe leaves the input table as it was, and returns
   a distinct copy with the same rows in the same order, every original
   column unchanged, plus the four columns predicted_label, bulb, fan and
   iron. *)
C9_InputUntouchedResultExtends ==
  op = "predict_from_dataframe" /\ raised = "" =>
    /\ arg = input
    /\ distinct
    /\ Len(ret.rows) = Len(input.rows)
    /\ ret.columns = input.columns \o <<"predicted_label", "bulb", "fan", "iron">>
    /\ \A r \in 1..Len(input.rows) :
         \A c \in ColumnSet(input) : ret.rows[r][c] = input.rows[r][c]

\* what the last prediction call returns on a predictor fresh from its
\* artifact
FreshResult ==
  LET fresh == init__(model_path, fs).self
  IN CASE op = "predict_single" ->
            predict_single(fresh, LABEL_TO_DEVICE_STATES, input).ret
       [] op = "predict_batch" ->
            predict_batch(fresh, LABEL_TO_DEVICE_STATES, input).ret
       [] op = "predict_from_dataframe" ->
            predict_from_dataframe(fresh, LABEL_TO_DEVICE_STATES, input).ret

(* C10: a prediction call changes neither model, feature_columns,
   class_labels nor the label table, and does not modify the caller's input;
   its result is the one a freshly constructed predictor returns for the
   same input, whatever calls came before it. *)
C10_Stateless ==
  /\ [](op \in PredictOps =>
          /\ arg = input
          /\ label_table = LABEL_TO_DEVICE_STATES
          /\ self = init__(model_path, fs).self
          /\ ret = FreshResult)
  /\ [][op' \in PredictOps =>
          /\ model' = model
          /\ feature_columns' = feature_columns
          /\ class_labels' = class_labels
          /\ model_path' = model_path
          /\ label_table' = label_table]_vars

\* a call with a record that lacks a feature returned a result and left the
\* record without that key
C10_Witness ==
  /\ op = "predict_single" /\ raised = ""
  /\ feature_columns[1] \notin DOMAIN arg
  /\ arg = input
  /\ ret = FreshResult
  /\ self = init__(model_path, fs).self

RECURSIVE SumProbability(_)
\* the total of the probabilities of a list of entries
SumProbability(P) ==
  IF P = <<>> THEN 0 ELSE P[1].probability + SumProbability(Tail(P))

\* the entries of a list as a bag: how often each (label, probability) occurs
Occurrences(P, e) == Cardinality({i \in 1..Len(P) : P[i] = e})

(* C11: the probabilities of every result of predict_single sum to 1.0
   (Scale quarters): the list has one entry per class probability the model
   returned, it is a permutation of the entries (class_labels[i], i-th
   probability of the model), and so its total is the model's total. *)
C11_ProbabilitiesSumToOne ==
  /\ \A res \in Results :
       /\ Len(res.probabilities) = Len(class_labels)
       /\ SumProbability(res.probabilities) = Scale
  /\ op = "predict_single" /\ raised = "" =>
       LET proba == predict_proba(model, X)
           unsorted == [i \in 1..Len(proba) |->
                          [label |-> class_labels[i],
                           probability |-> proba[i],
                           device_states |->
                             get(label_table, class_labels[i], AllOff)]]
       IN /\ Len(ret.probabilities) = Len(proba)
          /\ \A i \in 1..Len(proba) :
               Occurrences(ret.probabilities, unsorted[i]) =
                 Occurrences(unsorted, unsorted[i])
          /\ SumProbability(ret.probabilities) = SumProbability(unsorted)

\* sorting moved every entry: the model answered <<1, 1, 2>> or <<0, 1, 3>>
\* and the list still totals 1.0 over all three classes
C11_Witness ==
  /\ op = "predict_single" /\ raised = ""
  /\ Len(ret.probabilities) = 3
  /\ ret.probabilities[1].label = class_labels[3]
  /\ ret.probabilities[3].probability < ret.probabilities[1].probability
  /\ SumProbability(ret.probabilities) = Scale

(* C12 as stated: in every result of predict_single the head of the
   probability list agrees with the top-level prediction: same label, same
   device_states, and its probability is confidence. *)
C12_HeadAgreesWithPrediction ==
  \A res \in Results :
    /\ res.probabilities[1].label = res.label
    /\ res.probabilities[1].device_states = res.device_states
    /\ res.probabilities[1].probability = res.confidence

(* C12 as amended: the head of the probability list is the entry of the
   first class of maximum probability, so its probability is confidence;
   its label and device_states are those of the result whenever the model's
   classify call returns that class (class_labels at the first maximum of
   its probability call), which the code does not check. *)
C12_HeadIsFirstMaximum ==
  /\ \A res \in Results :
       res.probabilities[1].probability = res.confidence
  /\ op = "predict_single" /\ raised = "" =>
       LET k == argmax(predict_proba(model, X), 1)
       IN /\ ret.probabilities[1].label = class_labels[k]
          /\ ret.probabilities[1].device_states =
               get(label_table, class_labels[k], AllOff)
          /\ predict(model, X) = class_labels[k] =>
               /\ ret.probabilities[1].label = ret.label
               /\ ret.probabilities[1].device_states = ret.device_states

\* a forest whose two best classes are tied: the head is the first of them,
\* and it is the predicted label
C12_Witness ==
  /\ op = "predict_single" /\ raised = ""
  /\ model.kind = "forest"
  /\ predict_proba(model, X) = <<2, 2, 0>>
  /\ ret.label = class_labels[1]
  /\ ret.probabilities[1].label = ret.label
  /\ ret.probabilities[1].device_states = ret.device_states
  /\ ret.probabilities[1].probability = ret.confidence

====
